---- MODULE Spec2Model ----
(***************************************************************************)
(* Model of src/interactive_pricing_engine.py: the rule engine             *)
(* (PricingRule subclasses, PricingEngine) and the change-triggered        *)
(* pipeline (calculate_file_hash, CSVChangeHandler, process_products,      *)
(* write_output, run_interactive_pricing_engine).                          *)
(*                                                                         *)
(* Prices are exact decimals held as integers in units of 1/10000 of a     *)
(* currency unit, so that price * 1.15, * 0.7, * 0.9 and cost * 1.2 of a   *)
(* price given in whole cents are exact.  One cent is CentUnit units.      *)
(***************************************************************************)
EXTENDS Integers, Sequences, FiniteSets, TLC

VARIABLES
  rules,      \* PricingEngine.rules: sequence of rule objects
  eval,       \* latest process_product call: inputs, phase results, return value
  files,      \* the two input files: content version, 0 when the file is absent
  output,     \* the output file on disk
  handler,    \* CSVChangeHandler.products_hash / sales_hash
  pc,         \* position of each thread
  loc,        \* locals of the process_files / write_output frames of each thread
  queue,      \* watchdog events not yet dispatched
  observing,  \* observer.start() has run
  g           \* history of the run (passes started, edits made, ...)

vars == <<rules, eval, files, output, handler, pc, loc, queue, observing, g>>

engineVars == <<rules, eval>>
pipeVars == <<files, output, handler, pc, loc, queue, observing, g>>

(***************************************************************************)
(* Bounds of the model                                                     *)
(***************************************************************************)
MaxRules == 3        \* rules installed at once in the engine specification
MaxCents == 10       \* input prices range over 0..MaxCents cents
MaxVersion == 2      \* distinct contents an input file can take
MaxEdits == 3        \* file-system changes made by the environment

(***************************************************************************)
(* Program constants                                                       *)
(***************************************************************************)
LowStockLimit == 20       \* stock < 20
HighDemandLimit == 30     \* quantity_sold > 30
DeadStockLimit == 200     \* stock > 200
OverstockLimit == 100     \* stock > 100
OverstockSoldLimit == 20  \* quantity_sold < 20
SurgePct == 115           \* current_price * 1.15
DeadStockPct == 70        \* current_price * 0.7
OverstockPct == 90        \* current_price * 0.9
MarginPct == 120          \* cost_price * 1.2
CentUnit == 100           \* round(..., 2): one cent in price units

Priorities == {1, 2, 3}

TierClasses == {"LowStockHighDemandRule", "DeadStockRule", "OverstockedInventoryRule"}
RuleClasses == TierClasses \cup {"MinimumProfitRule"}

(***************************************************************************)
(* Rules                                                                   *)
(***************************************************************************)
\* PricingRule.__init__: a rule object is its class and its priority.
Rule(cls, priority) == [cls |-> cls, priority |-> priority]

\* the comparison with <= in place of <
LtOrEqual(a, b) == a.priority <= b.priority

\* PricingRule.__lt__
Lt(a, b) == a.priority < b.priority

\* sales_data.get('quantity_sold', 0)
QuantitySold(sales_data) ==
  IF "quantity_sold" \in DOMAIN sales_data THEN sales_data.quantity_sold ELSE 0

\* x * pct / 100 on exact decimals (exact for x in whole cents)
Times(x, pct) == (x * pct) \div 100

\* should_apply with the low-stock test written stock <= 20
ShouldApplyInclusive(rule, product, sales_data) ==
  CASE rule.cls = "LowStockHighDemandRule" ->
         product.stock <= LowStockLimit /\ QuantitySold(sales_data) > HighDemandLimit
    [] rule.cls = "DeadStockRule" ->
         product.stock > DeadStockLimit /\ QuantitySold(sales_data) = 0
    [] rule.cls = "OverstockedInventoryRule" ->
         product.stock > OverstockLimit /\ QuantitySold(sales_data) < OverstockSoldLimit
    [] OTHER -> TRUE

\* <Rule>.should_apply
ShouldApply(rule, product, sales_data) ==
  CASE rule.cls = "LowStockHighDemandRule" ->
         product.stock < LowStockLimit /\ QuantitySold(sales_data) > HighDemandLimit
    [] rule.cls = "DeadStockRule" ->
         product.stock > DeadStockLimit /\ QuantitySold(sales_data) = 0
    [] rule.cls = "OverstockedInventoryRule" ->
         product.stock > OverstockLimit /\ QuantitySold(sales_data) < OverstockSoldLimit
    [] OTHER -> TRUE

\* the floor taken against current_price, whatever the tier phase did
PriceSoFarCurrent(product) == product.current_price

\* product.get('new_price', product['current_price'])
PriceSoFar(product) ==
  IF "new_price" \in DOMAIN product THEN product.new_price ELSE product.current_price

Max(a, b) == IF a >= b THEN a ELSE b

\* <Rule>.apply
Apply(rule, product, sales_data) ==
  CASE rule.cls = "LowStockHighDemandRule" -> Times(product.current_price, SurgePct)
    [] rule.cls = "DeadStockRule" -> Times(product.current_price, DeadStockPct)
    [] rule.cls = "OverstockedInventoryRule" -> Times(product.current_price, OverstockPct)
    [] OTHER -> Max(PriceSoFar(product), Times(product.cost_price, MarginPct))

(***************************************************************************)
(* PricingEngine                                                           *)
(***************************************************************************)
\* list.sort(): a stable sort that compares with __lt__ only.  InsertSorted
\* puts x before the first element it is less than.
RECURSIVE InsertSorted(_, _)
InsertSorted(sorted, x) ==
  IF sorted = <<>> THEN <<x>>
  ELSE IF Lt(x, Head(sorted)) THEN <<x>> \o sorted
  ELSE <<Head(sorted)>> \o InsertSorted(Tail(sorted), x)

RECURSIVE Sort(_)
Sort(s) == IF s = <<>> THEN <<>> ELSE InsertSorted(Sort(SubSeq(s, 1, Len(s) - 1)), s[Len(s)])

\* PricingEngine.add_rule
add_rule(rs, rule) == Sort(Append(rs, rule))

\* only the first instance of the class removed
RECURSIVE RemoveFirst(_, _)
RemoveFirst(rs, rule_class) ==
  IF rs = <<>> THEN <<>>
  ELSE IF Head(rs).cls = rule_class THEN Tail(rs)
  ELSE <<Head(rs)>> \o RemoveFirst(Tail(rs), rule_class)

\* PricingEngine.remove_rule
remove_rule(rs, rule_class) == SelectSeq(rs, LAMBDA r : r.cls # rule_class)

\* old_price taken from the wrong column
CopyWithOldPriceFromCost(product) ==
  [k \in DOMAIN product \cup {"old_price"} |->
     IF k = "old_price" THEN product.cost_price ELSE product[k]]

\* result = product.copy(); result['old_price'] = float(product['current_price'])
CopyWithOldPrice(product) ==
  [k \in DOMAIN product \cup {"old_price"} |->
     IF k = "old_price" THEN product.current_price ELSE product[k]]

\* result['new_price'] = v
SetNewPrice(result, v) ==
  [k \in DOMAIN result \cup {"new_price"} |-> IF k = "new_price" THEN v ELSE result[k]]

\* The tier loop without the skip of the MinimumProfitRule: the rule, whose
\* predicate is always true, is consulted at its place in the list
RECURSIVE TierLoopNoSkip(_, _, _, _, _)
TierLoopNoSkip(rs, i, product, sales_data, st) ==
  IF i > Len(rs) THEN st
  ELSE IF ShouldApply(rs[i], product, sales_data)
       THEN [result |-> SetNewPrice(st.result, Apply(rs[i], product, sales_data)),
             applied_exclusive_rule |-> TRUE,
             fired |-> Append(st.fired, i)]
       ELSE TierLoopNoSkip(rs, i + 1, product, sales_data, st)

\* The tier loop without its break: every matching rule is applied in turn
RECURSIVE TierLoopNoBreak(_, _, _, _, _)
TierLoopNoBreak(rs, i, product, sales_data, st) ==
  IF i > Len(rs) THEN st
  ELSE IF rs[i].cls = "MinimumProfitRule" THEN TierLoopNoBreak(rs, i + 1, product, sales_data, st)
  ELSE IF ShouldApply(rs[i], product, sales_data)
       THEN TierLoopNoBreak(rs, i + 1, product, sales_data,
              [result |-> SetNewPrice(st.result, Apply(rs[i], product, sales_data)),
               applied_exclusive_rule |-> TRUE,
               fired |-> Append(st.fired, i)])
       ELSE TierLoopNoBreak(rs, i + 1, product, sales_data, st)

\* The tier loop of process_product from rule i on.  fired lists the indices of
\* the rules whose transform was applied.
RECURSIVE TierLoop(_, _, _, _, _)
TierLoop(rs, i, product, sales_data, st) ==
  IF i > Len(rs) THEN st
  ELSE IF rs[i].cls = "MinimumProfitRule" THEN TierLoop(rs, i + 1, product, sales_data, st)
  ELSE IF ShouldApply(rs[i], product, sales_data)
       THEN [result |-> SetNewPrice(st.result, Apply(rs[i], product, sales_data)),
             applied_exclusive_rule |-> TRUE,
             fired |-> Append(st.fired, i)]
       ELSE TierLoop(rs, i + 1, product, sales_data, st)

\* process_product up to the end of tier selection
TierPhase(rs, product, sales_data) ==
  LET st == TierLoop(rs, 1, product, sales_data,
                     [result |-> CopyWithOldPrice(product),
                      applied_exclusive_rule |-> FALSE,
                      fired |-> <<>>])
  IN  IF st.applied_exclusive_rule THEN st
      ELSE [st EXCEPT !.result = SetNewPrice(st.result, product.current_price)]

\* process_product: the minimum profit rule applied at the end if it exists
FloorPhase(rs, result, sales_data) ==
  LET min_profit_rules == SelectSeq(rs, LAMBDA r : r.cls = "MinimumProfitRule")
  IN  IF min_profit_rules # <<>>
      THEN SetNewPrice(result, Apply(min_profit_rules[1], result, sales_data))
      ELSE result

\* The two cent values nearest to x, and whether x lies exactly between them.
CentBelow(x) == (x \div CentUnit) * CentUnit
IsTie(x) == 2 * (x - CentBelow(x)) = CentUnit

\* round(x, 2).  x is a binary float in the program: away from a tie it rounds
\* to the nearest cent; at an exact decimal tie the float product lies a little
\* below or above the tie (or on it), so either neighbour can result: up says
\* which.
Round2(x, up) ==
  IF IsTie(x) THEN (IF up THEN CentBelow(x) + CentUnit ELSE CentBelow(x))
  ELSE IF 2 * (x - CentBelow(x)) > CentUnit THEN CentBelow(x) + CentUnit
  ELSE CentBelow(x)

TieChoices(x) == IF IsTie(x) THEN BOOLEAN ELSE {FALSE}

\* PricingEngine.process_product
process_product(rs, product, sales_data, up) ==
  LET tiered == TierPhase(rs, product, sales_data).result
      floored == FloorPhase(rs, tiered, sales_data)
  IN  SetNewPrice(floored, Round2(floored.new_price, up))

\* The caller's product dict after process_product: result is a copy of it, and
\* every assignment of process_product is to a key of result
InputAfter(rs, product, sales_data) == product

\* The price process_product rounds at the end
PreRound(rs, product, sales_data) ==
  FloorPhase(rs, TierPhase(rs, product, sales_data).result, sales_data).new_price

\* The columns of a product row whose text float() or int() cannot convert
Malformed(product) == IF "malformed" \in DOMAIN product THEN product.malformed ELSE {}

\* process_product raises ValueError or KeyError: float(product['current_price'])
\* at its start, int(product['stock']) in should_apply of the first tier rule
\* the loop reaches, float(product['cost_price']) in MinimumProfitRule.apply
Raises(rs, product, sales_data) ==
  \/ "current_price" \in Malformed(product)
  \/ /\ "stock" \in Malformed(product)
     /\ \E i \in DOMAIN rs : rs[i].cls # "MinimumProfitRule"
  \/ /\ "cost_price" \in Malformed(product)
     /\ \E i \in DOMAIN rs : rs[i].cls = "MinimumProfitRule"

(***************************************************************************)
(* Inputs of process_product                                               *)
(***************************************************************************)
Product(sku, current_price, cost_price, stock) ==
  [sku |-> sku, current_price |-> current_price, cost_price |-> cost_price, stock |-> stock]

\* Stock levels and sales counts on both sides of every threshold of the rules
StockValues ==
  {LowStockLimit - 1, LowStockLimit, OverstockLimit, OverstockLimit + 1,
   DeadStockLimit, DeadStockLimit + 1}
SoldValues ==
  {0, 1, OverstockSoldLimit - 1, OverstockSoldLimit, HighDemandLimit, HighDemandLimit + 1}

CentPrices == {c * CentUnit : c \in 0..MaxCents}

\* The worked examples: 10.00 against a cost of 8.00 and of 9.00
ExampleProducts ==
  {Product("A1", 1000 * CentUnit, cost * CentUnit, stock) :
     cost \in {800, 900}, stock \in {5, 300}}

DefaultProducts ==
  {Product("A1", cur, cost, stock) :
     cur \in CentPrices, cost \in CentPrices, stock \in StockValues}
  \cup ExampleProducts

\* A sales row, and the row of a table that has no quantity_sold column
SalesRow(sku, quantity_sold) == [sku |-> sku, quantity_sold |-> quantity_sold]
DefaultSales == {SalesRow("A1", q) : q \in SoldValues \cup {40}} \cup {[sku |-> "A1"]}

\* The smaller input set of the engine specification: prices of 1 and 5 cents,
\* the stock and sales levels that make each combination of tier predicates true
EnginePrices == {CentUnit, 5 * CentUnit}
EngineProducts ==
  {Product("A1", cur, cost, stock) :
     cur \in EnginePrices, cost \in EnginePrices,
     stock \in {LowStockLimit - 1, OverstockLimit + 1, DeadStockLimit + 1}}
EngineSales == {SalesRow("A1", q) : q \in {0, OverstockSoldLimit - 1, HighDemandLimit + 1}}

\* the priority run_interactive_pricing_engine gives the MinimumProfitRule
DefaultMarginPriority == 4

\* run_interactive_pricing_engine: the engine with its four rules
DefaultRules ==
  add_rule(add_rule(add_rule(add_rule(<<>>,
    Rule("LowStockHighDemandRule", 1)),
    Rule("DeadStockRule", 2)),
    Rule("OverstockedInventoryRule", 3)),
    Rule("MinimumProfitRule", DefaultMarginPriority))

NotCalled == [called |-> FALSE]
\* The last call was add_rule(rule) or remove_rule(rule_class), made on the rule
\* list before
Added(rule, before) == [called |-> FALSE, added |-> rule, before |-> before]
Removed(rule_class, before) == [called |-> FALSE, removed |-> rule_class, before |-> before]

\* One call of process_product, with the value of each phase
Call(rs, product, sales_data, up) ==
  [called |-> TRUE,
   product |-> product,
   sales_data |-> sales_data,
   after |-> InputAfter(rs, product, sales_data),
   tier |-> TierPhase(rs, product, sales_data),
   floored |-> FloorPhase(rs, TierPhase(rs, product, sales_data).result, sales_data),
   result |-> process_product(rs, product, sales_data, up)]

(***************************************************************************)
(* Files                                                                   *)
(***************************************************************************)
products_file == "products.csv"
sales_file == "sales.csv"
output_file == "updated_prices.csv"

\* A row of products.csv with cells whose text is missing or is not a number:
\* malformed names their columns
MalformedProduct(sku, current_price, cost_price, stock, malformed) ==
  [sku |-> sku, current_price |-> current_price, cost_price |-> cost_price,
   stock |-> stock, malformed |-> malformed]

Versions == 1..MaxVersion
\* the version of products.csv that has a malformed row between two good ones
MalformedVersion == MaxVersion + 1
ProductVersions == Versions \cup {MalformedVersion}

\* Version v of products.csv: the price of A1 depends on v, the cost of B2 is
\* 9.00 in the odd versions and 5.00 in the even ones.  B2 never has a sales row.
ProductsTable(v) ==
  IF v = MalformedVersion
  THEN << Product("A1", 1000 * CentUnit, 800 * CentUnit, 5),
          MalformedProduct("X9", 1000 * CentUnit, 500 * CentUnit, 0, {"stock"}),
          Product("B2", 1000 * CentUnit, 500 * CentUnit, 300) >>
  ELSE << Product("A1", (1000 + 100 * v) * CentUnit, 800 * CentUnit, 5),
          Product("B2", 1000 * CentUnit, (IF v % 2 = 1 THEN 900 ELSE 500) * CentUnit, 300) >>

\* Version v of sales.csv: A1 sold 40 in the odd versions, 0 in the even ones
SalesTable(v) == << SalesRow("A1", IF v % 2 = 1 THEN 40 ELSE 0) >>

\* hashlib.md5(buf).hexdigest(): distinct contents have distinct digests
Md5(content) == <<"md5", content>>
\* the "" that calculate_file_hash returns for a missing file
NoDigest == <<>>

\* load_sales_data: the rows indexed by sku, a later row replacing an earlier one
load_sales_data(rows) ==
  [sku \in {rows[i].sku : i \in DOMAIN rows} |->
     rows[CHOOSE i \in DOMAIN rows :
            rows[i].sku = sku /\ \A j \in DOMAIN rows : rows[j].sku = sku => j <= i]]

\* the default of the lookup with a quantity_sold of 1
ProductSalesDefaultOne(sales_data, product) ==
  IF product.sku \in DOMAIN sales_data THEN sales_data[product.sku]
  ELSE [quantity_sold |-> 1]

\* sales_data.get(product['sku'], {'quantity_sold': '0'})
ProductSales(sales_data, product) ==
  IF product.sku \in DOMAIN sales_data THEN sales_data[product.sku]
  ELSE [quantity_sold |-> 0]

\* f"${x:.2f}": the price to the nearest cent, as dollars and cents
Format2(x) ==
  LET cents == Round2(x, FALSE) \div CentUnit
  IN  <<"$", cents \div 100, cents % 100>>

\* write_output: the header line and the line of one product
HeaderLine == << <<"sku">>, <<"old_price">>, <<"new_price">> >>
RowLine(product) ==
  << <<product.sku>>, Format2(product.old_price), Format2(product.new_price) >>

NoFile == [exists |-> FALSE, lines |-> <<>>]
\* open(output_file, 'w'): the file exists and is empty
Truncated == [exists |-> TRUE, lines |-> <<>>]
\* closing the file writes the buffered lines
Closed(buf) == [exists |-> TRUE, lines |-> buf]

(***************************************************************************)
(* Threads: the main thread, which constructs the handler and starts the   *)
(* observer, and the observer's thread, which calls on_modified for one    *)
(* event at a time.                                                        *)
(***************************************************************************)
Threads == {"main", "disp"}

NoLocals ==
  [new_products_hash |-> NoDigest, new_sales_hash |-> NoDigest,
   sales_data |-> <<>>, reader |-> <<>>, buf |-> <<>>,
   readP |-> 0, readS |-> 0]

NoBurst == [ph |-> "off", base |-> 0, passes1 |-> 0, h0 |-> <<NoDigest, NoDigest>>, ok1 |-> FALSE]

\* watchdog events
FileEvent(name) == [is_directory |-> FALSE, src_path |-> <<".", name>>]
DirEvent == [is_directory |-> TRUE, src_path |-> <<".">>]
\* event.src_path.endswith(name)
EndsWith(src_path, name) == src_path[Len(src_path)] = name

ExistsPcs == {"init_hp_exists", "init_hs_exists", "pf_hp_exists", "pf_hs_exists"}
ReadPcs == {"init_hp_read", "init_hs_read", "pf_hp_read", "pf_hs_read"}
PassPcs == {"wo_open", "pp_load_sales", "pp_open_products", "pp_row"}
\* inside process_files
ProcessFilesPcs == {"pf_hp_exists", "pf_hp_read", "pf_hs_exists", "pf_hs_read", "pf_cmp"} \cup PassPcs

\* the file a calculate_file_hash call is about
HashedFile(p) ==
  IF p \in {"init_hp_exists", "init_hp_read", "pf_hp_exists", "pf_hp_read"}
  THEN "products" ELSE "sales"
ReadPc(p) ==
  CASE p = "init_hp_exists" -> "init_hp_read"
    [] p = "init_hs_exists" -> "init_hs_read"
    [] p = "pf_hp_exists" -> "pf_hp_read"
    [] p = "pf_hs_exists" -> "pf_hs_read"
\* where the caller continues after the call
AfterHash(p) ==
  CASE p \in {"init_hp_exists", "init_hp_read"} -> "init_hs_exists"
    [] p \in {"init_hs_exists", "init_hs_read"} -> "pf_hp_exists"
    [] p \in {"pf_hp_exists", "pf_hp_read"} -> "pf_hs_exists"
    [] p \in {"pf_hs_exists", "pf_hs_read"} -> "pf_cmp"

\* return from process_files: __init__ returns in the main thread, on_modified
\* returns in the observer's thread
Returned(t) == IF t = "main" THEN "init_done" ELSE "idle"
\* an exception that nothing catches ends the thread
Ended(t) == IF t = "main" THEN "crashed" ELSE "dead"

(***************************************************************************)
(* History of the run                                                      *)
(***************************************************************************)
\* Two modifications of products.csv in a row, made while the observer's thread
\* is idle and nothing else is pending, and the handling of their two events
\* with no further change of the file system: ph goes off, one, two (the
\* modifications), first, between, second, done (the handling).
BurstAfterChange(productsModified) ==
  IF productsModified /\ observing /\ pc["disp"] = "idle"
  THEN IF queue = <<>> THEN [NoBurst EXCEPT !.ph = "one"]
       ELSE IF g.burst.ph = "one" /\ queue = <<FileEvent(products_file)>>
            THEN [NoBurst EXCEPT !.ph = "two"]
            ELSE NoBurst
  ELSE NoBurst

BurstAfterDispatch(event, handled) ==
  CASE g.burst.ph = "two" /\ handled ->
         [NoBurst EXCEPT !.ph = "first", !.base = g.passes,
                         !.h0 = <<handler.products_hash, handler.sales_hash>>]
    [] g.burst.ph = "between" /\ handled -> [g.burst EXCEPT !.ph = "second"]
    [] g.burst.ph \in {"between", "done"} /\ ~handled -> g.burst
    [] OTHER -> NoBurst

BurstAfterReturn(t, passes, ok) ==
  CASE t = "disp" /\ g.burst.ph = "first" ->
         [g.burst EXCEPT !.ph = "between", !.passes1 = passes, !.ok1 = ok]
    [] t = "disp" /\ g.burst.ph = "second" -> [g.burst EXCEPT !.ph = "done"]
    [] OTHER -> g.burst

(***************************************************************************)
(* calculate_file_hash, in two steps: os.path.exists, then open and read   *)
(***************************************************************************)
\* The caller's assignment of the digest: __init__ stores it in the handler,
\* process_files in a local
HandlerAfterHash(p, digest) ==
  CASE p \in {"init_hp_exists", "init_hp_read"} -> [handler EXCEPT !.products_hash = digest]
    [] p \in {"init_hs_exists", "init_hs_read"} -> [handler EXCEPT !.sales_hash = digest]
    [] OTHER -> handler

LocalsAfterHash(p, l, digest, content) ==
  CASE p \in {"pf_hp_exists", "pf_hp_read"} ->
         [l EXCEPT !.new_products_hash = digest, !.readP = content]
    [] p \in {"pf_hs_exists", "pf_hs_read"} ->
         [l EXCEPT !.new_sales_hash = digest, !.readS = content]
    [] OTHER -> l

SeenAfterHash(p, content) ==
  CASE p \in {"init_hp_exists", "init_hp_read"} -> <<content, g.seen[2]>>
    [] p \in {"init_hs_exists", "init_hs_read"} -> <<g.seen[1], content>>
    [] OTHER -> g.seen

HashReturns(t, digest, content) ==
  /\ handler' = HandlerAfterHash(pc[t], digest)
  /\ loc' = [loc EXCEPT ![t] = LocalsAfterHash(pc[t], loc[t], digest, content)]
  /\ g' = [g EXCEPT !.seen = SeenAfterHash(pc[t], content)]
  /\ pc' = [pc EXCEPT ![t] = AfterHash(pc[t])]

\* if not os.path.exists(file_path): return ""
HashExists(t) ==
  /\ pc[t] \in ExistsPcs
  /\ IF files[HashedFile(pc[t])] = 0
     THEN HashReturns(t, NoDigest, 0)
     ELSE /\ pc' = [pc EXCEPT ![t] = ReadPc(pc[t])]
          /\ UNCHANGED <<handler, loc, g>>
  /\ UNCHANGED <<rules, eval, files, output, queue, observing>>

\* with open(file_path, 'rb') as f: ... return hasher.hexdigest()
\* The open raises FileNotFoundError when the file has gone since the check;
\* no caller catches it.
HashRead(t) ==
  /\ pc[t] \in ReadPcs
  /\ IF files[HashedFile(pc[t])] = 0
     THEN /\ pc' = [pc EXCEPT ![t] = Ended(t)]
          /\ loc' = [loc EXCEPT ![t] = NoLocals]
          /\ g' = [g EXCEPT !.burst = NoBurst]
          /\ UNCHANGED handler
     ELSE HashReturns(t, Md5(files[HashedFile(pc[t])]), files[HashedFile(pc[t])])
  /\ UNCHANGED <<rules, eval, files, output, queue, observing>>

(***************************************************************************)
(* CSVChangeHandler.process_files after the two digests                    *)
(***************************************************************************)
\* files_changed set only when both digests differ
FilesChangedBoth(h, new_products_hash, new_sales_hash) ==
  new_products_hash # h.products_hash /\ new_sales_hash # h.sales_hash

\* files_changed
FilesChanged(h, new_products_hash, new_sales_hash) ==
  new_products_hash # h.products_hash \/ new_sales_hash # h.sales_hash

\* the two ifs without their assignments: the stored hashes stay as they were
StoredHashesKept(h, new_products_hash, new_sales_hash) == h

\* the second if without its assignment to self.sales_hash
StoredHashesProductsOnly(h, new_products_hash, new_sales_hash) ==
  [products_hash |-> IF new_products_hash # h.products_hash
                     THEN new_products_hash ELSE h.products_hash,
   sales_hash |-> h.sales_hash]

\* the first if without its assignment to self.products_hash
StoredHashesSalesOnly(h, new_products_hash, new_sales_hash) ==
  [products_hash |-> h.products_hash,
   sales_hash |-> IF new_sales_hash # h.sales_hash
                  THEN new_sales_hash ELSE h.sales_hash]

\* self.products_hash, self.sales_hash after the two ifs
StoredHashes(h, new_products_hash, new_sales_hash) ==
  [products_hash |-> IF new_products_hash # h.products_hash
                     THEN new_products_hash ELSE h.products_hash,
   sales_hash |-> IF new_sales_hash # h.sales_hash
                  THEN new_sales_hash ELSE h.sales_hash]

\* which of the two ifs were taken
ChangedFiles(h, new_products_hash, new_sales_hash) ==
  {f \in {"products"} : new_products_hash # h.products_hash}
    \cup {f \in {"sales"} : new_sales_hash # h.sales_hash}

Compare(t) ==
  /\ pc[t] = "pf_cmp"
  /\ handler' = StoredHashes(handler, loc[t].new_products_hash, loc[t].new_sales_hash)
  /\ IF FilesChanged(handler, loc[t].new_products_hash, loc[t].new_sales_hash)
     THEN /\ pc' = [pc EXCEPT ![t] = "wo_open"]
          /\ loc' = loc
          /\ g' = [g EXCEPT !.passes = @ + 1, !.last = "run", !.outBefore = output,
                            !.read = <<0, 0>>,
                            !.seen = <<loc[t].readP, loc[t].readS>>,
                            !.changed = ChangedFiles(handler, loc[t].new_products_hash,
                                                     loc[t].new_sales_hash)]
     ELSE /\ pc' = [pc EXCEPT ![t] = Returned(t)]
          /\ loc' = [loc EXCEPT ![t] = NoLocals]
          /\ g' = [g EXCEPT !.last = "skip",
                            !.seen = <<loc[t].readP, loc[t].readS>>,
                            !.burst = BurstAfterReturn(t, g.passes, FALSE)]
  /\ UNCHANGED <<rules, eval, files, output, queue, observing>>

(***************************************************************************)
(* The pass: write_output pulling from the process_products generator      *)
(***************************************************************************)
\* The observer reports the change of the output file, which lies in the
\* watched directory
OutputEvent == IF observing THEN <<FileEvent(output_file)>> ELSE <<>>

\* with open(output_file, 'w') ...: writer.writeheader()
OpenOutput(t) ==
  /\ pc[t] = "wo_open"
  /\ output' = Truncated
  /\ loc' = [loc EXCEPT ![t].buf = <<HeaderLine>>]
  /\ queue' = queue \o OutputEvent
  /\ pc' = [pc EXCEPT ![t] = "pp_load_sales"]
  /\ UNCHANGED <<rules, eval, files, handler, observing, g>>

\* An exception raised under write_output's with: the file is closed with what
\* was buffered, and process_files catches the exception and returns
Aborts(t, why) ==
  /\ output' = Closed(loc[t].buf)
  /\ pc' = [pc EXCEPT ![t] = Returned(t)]
  /\ loc' = [loc EXCEPT ![t] = NoLocals]
  /\ g' = [g EXCEPT !.last = why, !.burst = BurstAfterReturn(t, g.passes, FALSE)]

\* FileNotFoundError: an input file is not there
PassFails(t) == Aborts(t, "missing")

\* first next() of the generator: sales_data = load_sales_data(sales_file)
LoadSales(t) ==
  /\ pc[t] = "pp_load_sales"
  /\ IF files.sales = 0
     THEN PassFails(t)
     ELSE /\ loc' = [loc EXCEPT ![t].sales_data = load_sales_data(SalesTable(files.sales))]
          /\ pc' = [pc EXCEPT ![t] = "pp_open_products"]
          /\ g' = [g EXCEPT !.read = <<@[1], files.sales>>]
          /\ UNCHANGED output
  /\ UNCHANGED <<rules, eval, files, handler, queue, observing>>

\* with open(products_file, 'r', newline='') as file: reader = csv.DictReader(file)
OpenProducts(t) ==
  /\ pc[t] = "pp_open_products"
  /\ IF files.products = 0
     THEN PassFails(t)
     ELSE /\ loc' = [loc EXCEPT ![t].reader = ProductsTable(files.products)]
          /\ pc' = [pc EXCEPT ![t] = "pp_row"]
          /\ g' = [g EXCEPT !.read = <<files.products, @[2]>>]
          /\ UNCHANGED output
  /\ UNCHANGED <<rules, eval, files, handler, queue, observing>>

\* for product in reader: yield process_product(...); writer.writerow(row)
WriteRow(t) ==
  /\ pc[t] = "pp_row"
  /\ loc[t].reader # <<>>
  /\ LET product == Head(loc[t].reader)
         product_sales == ProductSales(loc[t].sales_data, product)
     IN  IF Raises(rules, product, product_sales)
         THEN Aborts(t, "malformed")
         ELSE /\ \E up \in TieChoices(PreRound(rules, product, product_sales)) :
                   loc' = [loc EXCEPT ![t].reader = Tail(@),
                                      ![t].buf = Append(@, RowLine(process_product(rules, product, product_sales, up)))]
              /\ UNCHANGED <<output, pc, g>>
  /\ UNCHANGED <<rules, eval, files, handler, queue, observing>>

\* the reader is exhausted: both files are closed, process_files prints and returns
FinishPass(t) ==
  /\ pc[t] = "pp_row"
  /\ loc[t].reader = <<>>
  /\ output' = Closed(loc[t].buf)
  /\ pc' = [pc EXCEPT ![t] = Returned(t)]
  /\ loc' = [loc EXCEPT ![t] = NoLocals]
  /\ g' = [g EXCEPT !.last = "ok", !.written = TRUE,
                    !.burst = BurstAfterReturn(t, g.passes, TRUE)]
  /\ UNCHANGED <<rules, eval, files, handler, queue, observing>>

(***************************************************************************)
(* run_interactive_pricing_engine and the observer                         *)
(***************************************************************************)
\* the observer started while CSVChangeHandler.__init__ is still running
StartObserverEarly ==
  /\ pc["main"] \notin {"crashed", "sleeping"}
  /\ ~observing
  /\ observing' = TRUE
  /\ pc' = [pc EXCEPT !["main"] = IF @ = "init_done" THEN "sleeping" ELSE @]
  /\ UNCHANGED <<rules, eval, files, output, handler, loc, queue, g>>

\* observer.schedule(...); observer.start(), after CSVChangeHandler(...) returned
StartObserver ==
  /\ pc["main"] = "init_done"
  /\ ~observing
  /\ observing' = TRUE
  /\ pc' = [pc EXCEPT !["main"] = "sleeping"]
  /\ UNCHANGED <<rules, eval, files, output, handler, loc, queue, g>>

\* CSVChangeHandler.on_modified, called by the observer's thread for the next event
Handles(event) ==
  /\ ~event.is_directory
  /\ EndsWith(event.src_path, products_file) \/ EndsWith(event.src_path, sales_file)

OnModified ==
  /\ observing
  /\ pc["disp"] = "idle"
  /\ queue # <<>>
  /\ queue' = Tail(queue)
  /\ pc' = [pc EXCEPT !["disp"] = IF Handles(Head(queue)) THEN "pf_hp_exists" ELSE "idle"]
  /\ g' = [g EXCEPT !.burst = BurstAfterDispatch(Head(queue), Handles(Head(queue)))]
  /\ UNCHANGED <<rules, eval, files, output, handler, loc, observing>>

(***************************************************************************)
(* The environment: other programs writing and deleting the input files    *)
(***************************************************************************)
Changed(file, content, events, productsModified, triggered) ==
  /\ g.edits < MaxEdits
  /\ files' = [files EXCEPT ![file] = content]
  /\ queue' = IF observing THEN queue \o events ELSE queue
  /\ g' = [g EXCEPT !.edits = @ + 1,
                    !.untriggered = @ \/ ~triggered \/ ~observing,
                    !.burst = BurstAfterChange(productsModified)]
  /\ UNCHANGED <<rules, eval, output, handler, pc, loc, observing>>

\* a program saves products.csv (with new contents or the same)
ModifyProducts == \E v \in ProductVersions : Changed("products", v, <<FileEvent(products_file)>>, TRUE, TRUE)
ModifySales == \E v \in Versions : Changed("sales", v, <<FileEvent(sales_file)>>, FALSE, TRUE)
\* a deletion reaches on_modified as a change of the directory only
DeleteProducts == files.products # 0 /\ Changed("products", 0, <<DirEvent>>, FALSE, FALSE)
DeleteSales == files.sales # 0 /\ Changed("sales", 0, <<DirEvent>>, FALSE, FALSE)

(***************************************************************************)
(* Specification of the pipeline                                           *)
(***************************************************************************)
InitPipe ==
  /\ output = NoFile
  /\ handler = [products_hash |-> NoDigest, sales_hash |-> NoDigest]
  /\ pc = [t \in Threads |-> IF t = "main" THEN "init_hp_exists" ELSE "idle"]
  /\ loc = [t \in Threads |-> NoLocals]
  /\ queue = <<>>
  /\ observing = FALSE
  /\ g = [passes |-> 0, edits |-> 0, untriggered |-> FALSE, last |-> "none",
          outBefore |-> NoFile, seen |-> <<0, 0>>, read |-> <<0, 0>>, changed |-> {},
          written |-> FALSE,
          burst |-> NoBurst]

Init ==
  /\ rules = DefaultRules
  /\ eval = NotCalled
  /\ files \in [products : 0..1, sales : 0..1]
  /\ InitPipe

Step(t) ==
  \/ HashExists(t)
  \/ HashRead(t)
  \/ Compare(t)
  \/ OpenOutput(t)
  \/ LoadSales(t)
  \/ OpenProducts(t)
  \/ WriteRow(t)
  \/ FinishPass(t)

Next ==
  \/ \E t \in Threads : Step(t)
  \/ StartObserver
  \/ OnModified
  \/ ModifyProducts
  \/ ModifySales
  \/ DeleteProducts
  \/ DeleteSales

Spec == Init /\ [][Next]_vars

(***************************************************************************)
(* Specification of the engine: rules are added and removed, and           *)
(* process_product is called on one product at a time                      *)
(***************************************************************************)
InitEngine ==
  /\ rules = <<>>
  /\ eval = NotCalled
  /\ files = [products |-> 1, sales |-> 1]
  /\ InitPipe

AddRule ==
  /\ Len(rules) < MaxRules
  /\ \E cls \in RuleClasses, priority \in Priorities :
       /\ rules' = add_rule(rules, Rule(cls, priority))
       /\ eval' = Added(Rule(cls, priority), rules)
  /\ UNCHANGED pipeVars

RemoveRule ==
  /\ \E cls \in RuleClasses :
       /\ rules' = remove_rule(rules, cls)
       /\ eval' = Removed(cls, rules)
  /\ UNCHANGED pipeVars

ProcessProduct ==
  /\ ~eval.called
  /\ \E product \in EngineProducts, sales_data \in EngineSales :
       \E up \in TieChoices(PreRound(rules, product, sales_data)) :
         eval' = Call(rules, product, sales_data, up)
  /\ UNCHANGED rules
  /\ UNCHANGED pipeVars

NextEngine == AddRule \/ RemoveRule \/ ProcessProduct

SpecEngine == InitEngine /\ [][NextEngine]_vars

(***************************************************************************)
(* Specification of the engine as run_interactive_pricing_engine builds    *)
(* it: the four rules at priorities 1 to 4                                 *)
(***************************************************************************)
InitDefault ==
  /\ rules = DefaultRules
  /\ eval = NotCalled
  /\ files = [products |-> 1, sales |-> 1]
  /\ InitPipe

PriceProduct ==
  /\ ~eval.called
  /\ \E product \in DefaultProducts, sales_data \in DefaultSales :
       \E up \in TieChoices(PreRound(rules, product, sales_data)) :
         eval' = Call(rules, product, sales_data, up)
  /\ UNCHANGED rules
  /\ UNCHANGED pipeVars

\* the caller has used the result
Discard ==
  /\ eval.called
  /\ eval' = NotCalled
  /\ UNCHANGED rules
  /\ UNCHANGED pipeVars

NextDefault == PriceProduct \/ Discard

SpecDefault == InitDefault /\ [][NextDefault]_vars

(***************************************************************************)
(* Properties of process_product                                           *)
(***************************************************************************)
HasMinimumProfitRule == \E i \in DOMAIN rules : rules[i].cls = "MinimumProfitRule"

\* C1: with a MinimumProfitRule installed, the new_price that process_product
\* returns (after the rounding to 2 decimal places) is at least cost_price * 1.2.
C1_FloorHoldsAfterRounding ==
  (eval.called /\ HasMinimumProfitRule)
    => eval.result.new_price * 100 >= eval.product.cost_price * 120

\* The tier rules of the engine whose predicate is true of the call's inputs
Matching ==
  {i \in DOMAIN rules :
     rules[i].cls \in TierClasses /\ ShouldApply(rules[i], eval.product, eval.sales_data)}

\* What each tier rule does to current_price
TierEffect(cls, current_price) ==
  CASE cls = "LowStockHighDemandRule" -> (current_price * 115) \div 100
    [] cls = "DeadStockRule" -> (current_price * 70) \div 100
    [] cls = "OverstockedInventoryRule" -> (current_price * 90) \div 100

\* C2: whatever tier rules are installed and whatever their priorities,
\* process_product applies the transform of at most one tier rule; when several
\* match, the one applied is a matching rule of the lowest priority number, and
\* the price before the floor is that rule's effect on current_price alone
\* (current_price itself when none matches).
C2_OneTierLowestPriority ==
  eval.called =>
    /\ Len(eval.tier.fired) <= 1
    /\ (Matching = {}) =>
         /\ eval.tier.fired = <<>>
         /\ eval.tier.result.new_price = eval.product.current_price
    /\ (Matching # {}) =>
         /\ Len(eval.tier.fired) = 1
         /\ eval.tier.fired[1] \in Matching
         /\ \A j \in Matching : rules[eval.tier.fired[1]].priority <= rules[j].priority
         /\ eval.tier.result.new_price =
              TierEffect(rules[eval.tier.fired[1]].cls, eval.product.current_price)

\* C2 witness: two tier rules of different priorities match the same product,
\* and the lower-numbered one, which is not the dead-stock rule, was applied.
C2_Witness ==
  /\ eval.called
  /\ \E i, j \in Matching : rules[i].priority < rules[j].priority
                            /\ rules[i].cls = "OverstockedInventoryRule"
                            /\ rules[j].cls = "DeadStockRule"
  /\ eval.tier.fired # <<>>
  /\ rules[eval.tier.fired[1]].cls = "OverstockedInventoryRule"

\* The price before floor enforcement that the default priorities give
DefaultTierPrice(product, sales_data) ==
  LET stock == product.stock
      sold == QuantitySold(sales_data)
      current == product.current_price
  IN  IF stock < 20 /\ sold > 30 THEN (current * 115) \div 100
      ELSE IF stock > 200 /\ sold = 0 THEN (current * 70) \div 100
      ELSE IF stock > 100 /\ sold < 20 THEN (current * 90) \div 100
      ELSE current

DefaultFlooredPrice(product, sales_data) ==
  Max(DefaultTierPrice(product, sales_data), (product.cost_price * 120) \div 100)

\* C3 as stated: with the four rules at priorities 1 to 4, the emitted new_price
\* is the maximum of the tier price and cost_price * 1.2.
C3_EmittedIsMaximum ==
  eval.called =>
    /\ eval.tier.result.new_price = DefaultTierPrice(eval.product, eval.sales_data)
    /\ eval.result.new_price = DefaultFlooredPrice(eval.product, eval.sales_data)

\* C3, amended: with the four rules at priorities 1 to 4, the price before floor
\* enforcement is current_price * 1.15 if stock < 20 and quantity_sold > 30,
\* otherwise * 0.7 if stock > 200 and quantity_sold = 0, otherwise * 0.9 if
\* stock > 100 and quantity_sold < 20, otherwise current_price; the price after
\* the floor is the maximum of that and cost_price * 1.2; and the emitted
\* new_price is that maximum rounded to 2 decimal places: a whole number of
\* cents at most half a cent away from it.
C3_EmittedIsRoundedMaximum ==
  eval.called =>
    /\ eval.tier.result.new_price = DefaultTierPrice(eval.product, eval.sales_data)
    /\ eval.floored.new_price = DefaultFlooredPrice(eval.product, eval.sales_data)
    /\ eval.result.new_price % 100 = 0
    /\ 2 * (eval.result.new_price - eval.floored.new_price) <= 100
    /\ 2 * (eval.floored.new_price - eval.result.new_price) <= 100

\* C3 witness: current 10.00, cost 9.00, stock 300, sold 0 gives 10.80
C3_Witness ==
  /\ eval.called
  /\ eval.product.current_price = 100000
  /\ eval.product.cost_price = 90000
  /\ eval.product.stock = 300
  /\ QuantitySold(eval.sales_data) = 0
  /\ eval.tier.result.new_price = 70000
  /\ eval.result.new_price = 108000

(***************************************************************************)
(* Properties of the pipeline                                              *)
(***************************************************************************)
\* The table a pass over the given versions of the two files writes: one line
\* for every product row that can be evaluated
RECURSIVE ExpectedRows(_, _)
ExpectedRows(products, sales_data) ==
  IF products = <<>> THEN <<>>
  ELSE IF Raises(rules, Head(products), ProductSales(sales_data, Head(products)))
       THEN ExpectedRows(Tail(products), sales_data)
  ELSE << RowLine(process_product(rules, Head(products),
                                  ProductSales(sales_data, Head(products)), FALSE)) >>
       \o ExpectedRows(Tail(products), sales_data)

ExpectedOutput(pv, sv) ==
  Closed(<<HeaderLine>> \o ExpectedRows(ProductsTable(pv), load_sales_data(SalesTable(sv))))

BothPresent == files.products # 0 /\ files.sales # 0
InitReturned == pc["main"] \in {"init_done", "sleeping"}
InProcessFiles(t) == pc[t] \in ProcessFilesPcs

\* C4: when CSVChangeHandler.__init__ has returned, with both input files
\* present and never changed, one pass has run and the output table is the one
\* computed from the input files.
C4_StartupRunsOnePass ==
  (InitReturned /\ BothPresent /\ g.edits = 0)
    => (g.passes = 1 /\ output = ExpectedOutput(files.products, files.sales))

\* C5: when every change of an input file has delivered its trigger, all
\* triggers have been handled and both files are there, the output table is the
\* one computed from the final contents of the files.  Stated here for the runs
\* in which a pass has already completed and the final products table has no
\* malformed row, so that neither the missing pass at startup (C4) nor the
\* batch a malformed row aborts (C11) is what decides it.
C5_SettledStateIsProcessed ==
  (observing /\ pc["main"] = "sleeping" /\ pc["disp"] = "idle" /\ queue = <<>>
     /\ ~g.untriggered /\ BothPresent /\ g.written /\ files.products \in Versions)
    => output = ExpectedOutput(files.products, files.sales)

\* C6: whenever process_files compares the digests and the new digest of the
\* products file or of the sales file differs from the stored one, a pass is
\* started in that invocation.
C6_ChangedDigestStartsPass ==
  [][\A t \in Threads :
       (/\ pc[t] = "pf_cmp"
        /\ pc'[t] # "pf_cmp"
        /\ \/ loc[t].new_products_hash # handler.products_hash
           \/ loc[t].new_sales_hash # handler.sales_hash)
         => (pc'[t] = "wo_open" /\ g'.passes = g.passes + 1)]_vars

\* C6 witness: a pass has been started by a change of the sales file alone
C6_Witness ==
  \E t \in Threads : pc[t] = "wo_open" /\ g.changed = {"sales"}

\* C7: an invocation of process_files that reads the same contents of both
\* files as the previous check did starts no pass and leaves the output file as
\* it was.
C7_UnchangedInputsRunNoPass ==
  [][\A t \in Threads :
       (/\ pc[t] = "pf_cmp"
        /\ pc'[t] # "pf_cmp"
        /\ <<loc[t].readP, loc[t].readS>> = g.seen)
         => (pc'[t] = Returned(t) /\ output' = output /\ g'.passes = g.passes)]_vars

\* C7 witness: after a pass wrote the table, process_files ran again on the same
\* contents, started nothing, and the table is still there
C7_Witness ==
  /\ g.last = "skip"
  /\ g.written
  /\ g.seen[1] # 0 /\ g.seen[2] # 0
  /\ pc["disp"] = "idle"
  /\ output = ExpectedOutput(g.seen[1], g.seen[2])

\* C8 as stated: two modifications of the products file before the next hash
\* check, then the handling of both triggers, result in exactly one pass, run by
\* the first trigger.
C8_TwoModificationsOnePass ==
  g.burst.ph = "done"
    => (g.burst.passes1 = g.burst.base + 1 /\ g.passes = g.burst.passes1)

\* The digest calculate_file_hash returns for an input file as it is now
DigestNow(file) == IF files[file] = 0 THEN NoDigest ELSE Md5(files[file])

\* C8, amended: two modifications of the products file before the next hash
\* check, then the handling of both triggers with no further change, result in
\* at most one pass: one, run by the first trigger, when the digest of either
\* file differs from the stored one, and none when the second modification left
\* the contents that were last checked; a pass that completes writes the table
\* of the final contents; the second trigger runs no pass.
C8_TwoModificationsAtMostOnePass ==
  g.burst.ph = "done" =>
    /\ g.passes = g.burst.passes1
    /\ g.burst.passes1 <= g.burst.base + 1
    /\ (g.burst.passes1 = g.burst.base + 1)
         <=> (DigestNow("products") # g.burst.h0[1] \/ DigestNow("sales") # g.burst.h0[2])
    /\ g.burst.ok1 => output = ExpectedOutput(files.products, files.sales)

\* C8 witness: both triggers handled, one pass, which wrote the final contents
C8_Witness ==
  /\ g.burst.ph = "done"
  /\ g.burst.passes1 = g.burst.base + 1
  /\ g.burst.ok1
  /\ g.last = "skip"

\* C9: process_files never runs in two threads at once, the initial call from
\* __init__ included, and an event is taken from the queue only when no call
\* of process_files is running.
C9_PassesSerialized ==
  /\ [](Cardinality({t \in Threads : InProcessFiles(t)}) <= 1)
  /\ [][Len(queue') < Len(queue) => \A t \in Threads : ~InProcessFiles(t)]_vars

\* C9 witness: a trigger for an input file arrived during a pass and waits
C9_Witness ==
  /\ pc["disp"] \in PassPcs
  /\ \E i \in DOMAIN queue : Handles(queue[i])

\* C10: a pass that finds an input file missing leaves the existing output
\* table as it was.
C10_MissingInputKeepsOutput ==
  (g.last = "missing" /\ g.outBefore.exists /\ Len(g.outBefore.lines) > 1)
    => output = g.outBefore

\* C11: a pass over a products table with a malformed row fails that product
\* only: every other row of the table the pass read, the rows after the
\* malformed one included, is evaluated and written.
C11_MalformedRowFailsAlone ==
  g.last = "malformed" => output = ExpectedOutput(g.read[1], g.read[2])

\* C12: no error raised inside process_files escapes it: the observer's thread,
\* whose every call of process_files comes from on_modified, is never ended by
\* an exception and goes on handling triggers, also when an input file is
\* deleted between the existence check and the read in calculate_file_hash.
C12_NoErrorEscapesProcessFiles ==
  pc["disp"] # Ended("disp")

\* The complete tables: what a pass over some contents of the two input files
\* writes when it evaluates every row it can
CompleteTables == {ExpectedOutput(pv, sv) : pv \in ProductVersions, sv \in Versions}

\* C13: once a pass has written the output table, the output file holds a
\* complete table at every instant, during a later pass and after a pass that
\* was aborted as well: never an empty or partly written file.
C13_OutputReplacedAtomically ==
  g.written => output \in CompleteTables

(***************************************************************************)
(* Frame of process_product and of the rule list                           *)
(***************************************************************************)
\* C14: whatever rules are installed and whichever fired, the old_price that
\* process_product returns is the product's current_price as given, the result
\* has every field of the product with the product's value plus old_price and
\* new_price, and the product dict passed in is the same after the call.
C14_OldPriceIsCurrentPrice ==
  eval.called =>
    /\ eval.result.old_price = eval.product.current_price
    /\ DOMAIN eval.result = DOMAIN eval.product \cup {"old_price", "new_price"}
    /\ \A k \in DOMAIN eval.product : eval.result[k] = eval.product[k]
    /\ eval.after = eval.product

\* C14 witness: a tier rule lowered the price, the floor raised it again, and
\* old_price is still current_price
C14_Witness ==
  /\ eval.called
  /\ eval.tier.fired # <<>>
  /\ eval.tier.result.new_price < eval.product.current_price
  /\ eval.floored.new_price > eval.tier.result.new_price
  /\ eval.result.new_price # eval.product.current_price
  /\ eval.result.old_price = eval.product.current_price

(***************************************************************************)
(* Further properties of the pipeline                                      *)
(***************************************************************************)
\* C15: the line a pass writes for a product whose sku has no row in the sales
\* table is the line process_product gives for that product with an explicit
\* sales row of quantity_sold 0.
C15_AbsentSkuIsZeroSales ==
  [][\A t \in Threads :
       (/\ pc[t] = "pp_row"
        /\ pc'[t] = "pp_row"
        /\ loc[t].reader # <<>>
        /\ loc'[t].reader = Tail(loc[t].reader)
        /\ Head(loc[t].reader).sku \notin DOMAIN loc[t].sales_data)
         => LET product == Head(loc[t].reader)
                zero == SalesRow(product.sku, 0)
            IN  \E up \in TieChoices(PreRound(rules, product, zero)) :
                  loc'[t].buf =
                    Append(loc[t].buf, RowLine(process_product(rules, product, zero, up)))]_vars

\* C15 witness: B2 at 10.00 with a cost of 5.00 and a stock of 300 has no sales
\* row and got the dead-stock price 7.00, which needs a quantity_sold of 0
C15_Witness ==
  \E t \in Threads :
    /\ pc[t] = "pp_row"
    /\ loc[t].reader = <<>>
    /\ "B2" \notin DOMAIN loc[t].sales_data
    /\ Len(loc[t].buf) = 3
    /\ loc[t].buf[3] = << <<"B2">>, <<"$", 10, 0>>, <<"$", 7, 0>> >>

\* The list s without its element at position k
Without(s, k) == SubSeq(s, 1, k - 1) \o SubSeq(s, k + 1, Len(s))

\* C16: the installed rules are always in ascending order of priority, and
\* add_rule puts the new rule after every rule of the same or a lower priority
\* number and before every rule of a higher one, leaving the rules that were
\* there in the order they had: none dropped, none duplicated.
C16_RulesSortedStable ==
  /\ \A i, j \in DOMAIN rules : i < j => rules[i].priority <= rules[j].priority
  /\ ("added" \in DOMAIN eval) =>
       /\ Len(rules) = Len(eval.before) + 1
       /\ \E k \in DOMAIN rules :
            /\ rules[k] = eval.added
            /\ Without(rules, k) = eval.before
            /\ \A i \in DOMAIN rules :
                 /\ i < k => rules[i].priority <= rules[k].priority
                 /\ i > k => rules[k].priority < rules[i].priority

\* C16 witness: a rule was added to two rules of its own priority and of other
\* classes, and stands after both
C16_Witness ==
  /\ "added" \in DOMAIN eval
  /\ Len(rules) = 3
  /\ rules[3] = eval.added
  /\ \A i \in 1..2 : rules[i].priority = rules[3].priority /\ rules[i].cls # rules[3].cls
  /\ rules[1].cls # rules[2].cls

\* The positions of the rules of another class than rule_class in rs
Kept(rs, rule_class) == {i \in DOMAIN rs : rs[i].cls # rule_class}

\* C17: after remove_rule(V) no rule of class V is installed, and the installed
\* rules are exactly the rules of the other classes that were there before, in
\* the order they had: the n-th rule kept is now the n-th rule.
C17_RemoveRuleKeepsOthers ==
  ("removed" \in DOMAIN eval) =>
    LET kept == Kept(eval.before, eval.removed)
    IN  /\ \A i \in DOMAIN rules : rules[i].cls # eval.removed
        /\ Len(rules) = Cardinality(kept)
        /\ \A i \in kept :
             rules[Cardinality({j \in kept : j <= i})] = eval.before[i]

\* C17 witness: two rules of the removed class were installed with a rule of
\* another class between them; both are gone and the other one is still there
C17_Witness ==
  /\ "removed" \in DOMAIN eval
  /\ Len(eval.before) = 3
  /\ eval.before[1].cls = eval.removed
  /\ eval.before[2].cls # eval.removed
  /\ eval.before[3].cls = eval.removed
  /\ rules = <<eval.before[2]>>

\* C18: with a MinimumProfitRule installed, the price after floor enforcement is
\* never below the price the tier phase left, and is that very price whenever it
\* is already at least cost_price * 1.2; otherwise it is cost_price * 1.2.
C18_FloorNeverLowers ==
  (eval.called /\ HasMinimumProfitRule) =>
    LET tiered == eval.tier.result.new_price
        floor == eval.product.cost_price * MarginPct
    IN  /\ eval.floored.new_price >= tiered
        /\ (tiered * 100 >= floor) => eval.floored.new_price = tiered
        /\ (tiered * 100 < floor) => eval.floored.new_price * 100 = floor

\* C18 witness: the tier phase lowered the price to one still above the floor,
\* and floor enforcement left it there
C18_Witness ==
  /\ eval.called
  /\ HasMinimumProfitRule
  /\ eval.tier.fired # <<>>
  /\ eval.tier.result.new_price < eval.product.current_price
  /\ eval.tier.result.new_price * 100 > eval.product.cost_price * MarginPct
  /\ eval.floored.new_price = eval.tier.result.new_price

\* C19: when process_files has compared the digests, both stored fingerprints
\* are the digests computed at the start of that invocation, whichever of them
\* differed, and they stay so through the pass and after it, also when the pass
\* failed; so a later invocation that computes the same two digests starts no
\* pass, whatever became of the last one.
C19_StoredHashesAreNewDigests ==
  /\ [][\A t \in Threads :
          (pc[t] = "pf_cmp" /\ pc'[t] # "pf_cmp")
            => /\ handler'.products_hash = loc[t].new_products_hash
               /\ handler'.sales_hash = loc[t].new_sales_hash]_vars
  /\ [](\A t \in Threads :
          pc[t] \in PassPcs
            => /\ handler.products_hash = loc[t].new_products_hash
               /\ handler.sales_hash = loc[t].new_sales_hash)
  /\ [][\A t \in Threads :
          (pc[t] \in PassPcs /\ pc'[t] \notin PassPcs) => handler' = handler]_vars
  /\ [][\A t \in Threads :
          (/\ pc[t] = "pf_cmp"
           /\ pc'[t] # "pf_cmp"
           /\ g.last \in {"missing", "malformed"}
           /\ loc[t].new_products_hash = handler.products_hash
           /\ loc[t].new_sales_hash = handler.sales_hash)
            => (pc'[t] = Returned(t) /\ g'.passes = g.passes /\ output' = output)]_vars

\* C19 witness: a pass started by a change of the products file alone has
\* failed on a malformed row, and the stored fingerprints are the digests of the
\* contents it was started for
C19_Witness ==
  /\ g.last = "malformed"
  /\ g.changed = {"products"}
  /\ pc["disp"] = "idle"
  /\ g.seen[1] = MalformedVersion
  /\ handler = [products_hash |-> Md5(g.seen[1]), sales_hash |-> Md5(g.seen[2])]

\* The installed rules with the MinimumProfitRule at the default priority in
\* place of every MinimumProfitRule installed
RulesAtDefaultMargin ==
  add_rule(remove_rule(rules, "MinimumProfitRule"),
           Rule("MinimumProfitRule", DefaultMarginPriority))

\* C20: with a MinimumProfitRule installed at any priority, the tier phase
\* applies tier rules only and leaves the price it would leave with no
\* MinimumProfitRule in the list, and the price after the floor and the emitted
\* new_price are those of the same rules with the MinimumProfitRule at the
\* default priority.
C20_MarginPriorityHasNoEffect ==
  (eval.called /\ HasMinimumProfitRule) =>
    /\ \A n \in DOMAIN eval.tier.fired : rules[eval.tier.fired[n]].cls \in TierClasses
    /\ eval.tier.result.new_price =
         TierPhase(remove_rule(rules, "MinimumProfitRule"),
                   eval.product, eval.sales_data).result.new_price
    /\ eval.floored.new_price =
         PreRound(RulesAtDefaultMargin, eval.product, eval.sales_data)
    /\ \E up \in TieChoices(eval.floored.new_price) :
         eval.result.new_price =
           process_product(RulesAtDefaultMargin, eval.product, eval.sales_data, up).new_price

\* C20 witness: the MinimumProfitRule stands first in the list, with a lower
\* priority number than the tier rule that was applied, and the price is that
\* tier rule's, above the floor
C20_Witness ==
  /\ eval.called
  /\ Len(rules) >= 2
  /\ rules[1].cls = "MinimumProfitRule"
  /\ eval.tier.fired # <<>>
  /\ rules[1].priority < rules[eval.tier.fired[1]].priority
  /\ eval.floored.new_price = eval.tier.result.new_price
  /\ eval.floored.new_price # eval.product.current_price

====
